---- MODULE Spec2Model ----
(***************************************************************************)
(* Model of the jterm desktop shell's supervision of its Python backend:   *)
(* the background launch task (port allocation, spawn, readiness probe),   *)
(* the shared Option<PythonBackend> slot behind a tokio Mutex, the two     *)
(* shutdown triggers (the quit_app command and the window CloseRequested   *)
(* handler), PythonBackend::shutdown / Drop, and the operating-system      *)
(* child process they act on.                                              *)
(***************************************************************************)
EXTENDS Integers, Sequences, FiniteSets, TLC

\* ------------------------------------------------------------------ bounds
\* Number of shutdown triggers considered: invocations of the quit_app
\* command and CloseRequested events of the main window, in any mix.
MaxTriggers == 2
\* Largest HealthCheckConfig.max_attempts the polling loop is run with.
MaxProbeAttempts == 4
\* Number of ports, the highest of u16, the port scan is run over.
ScanWidth == 3

\* --------------------------------------------------------- program constants
PortStart == 8000
PortEnd == 9000
DefaultMaxAttempts == 30
DefaultTimeoutSecs == 30
DefaultRetryDelayMs == 1000
U16Max == 65535
GracePolls == 50

\* ------------------------------------------------------------------ values
\* Option<T>: None is the empty tuple, Some(x) the one-element tuple.
None == <<>>
Some(x) == <<x>>
unwrap(o) == o[1]
\* Holders of the mutex: nobody, the launch task, a trigger.
Free == <<>>
LaunchTask == <<"launch">>
Holder(t) == <<"trigger", t>>

\* Triggers are numbered in the order in which they are invoked.
Triggers == 1..MaxTriggers

\* Option<bool> argument of quit_app
ForceArgs == {None, Some(TRUE), Some(FALSE)}

\* Environments the allocator is run against: the set of bindable ports.
FreePortChoices == {{}, {8050, PortEnd}}

\* Outcomes of the parameter resolution and existence checks of launch.
ResolveOutcomes ==
    {"ok", "app_data_dir", "create_dir_all", "python_paths", "python_missing",
     "app_root_missing"}

\* Outcomes of one health probe.
ProbeOutcomes == {"success", "status", "network_error"}

\* Ports the scan alone is run over: the last ScanWidth ports of u16.
ScanPorts == (U16Max - ScanWidth + 1)..U16Max

\* HealthCheckConfig values the polling loop is run with.
AttemptChoices == 0..MaxProbeAttempts
TimeoutChoices == {5, DefaultTimeoutSecs}

VARIABLES
    unix,          \* build target: TRUE for cfg(unix), FALSE otherwise
    freePorts,     \* ports a local listener can bind
    scan,          \* one run of find_available_port, statement by statement
    max_attempts,  \* HealthCheckConfig.max_attempts used by launch
    timeout_secs,  \* HealthCheckConfig.timeout_secs used by launch
    child,         \* OS state of the spawned child:
                   \*   "none" | "running" | "zombie" (exited, unreaped) | "reaped"
    os,            \* what has been done to the child (counters, flags)
    launch,        \* the background launch task
    slot,          \* AppState.python_backend: None or a PythonBackend
    lock,          \* holder of the tokio Mutex around the slot
    navigated,     \* main window navigated to base_url
    tr,            \* shutdown triggers: quit_app invocations, close handlers
    exitReqs,      \* exit requests handed to the framework, not yet effective
    exited,        \* None while the application runs, else how it exited
    info           \* None, or the AppInfo the last app_ready call returned

\* What the program runs against and is configured with; no action changes it.
env == <<unix, freePorts, max_attempts, timeout_secs>>

vars == <<env, scan, child, os, launch, slot, lock,
          navigated, tr, exitReqs, exited, info>>

\* ------------------------------------------------------------ PythonBackend
\* Strings are sequences of one-character strings, a literal one element.
DigitChar(d) == <<"0", "1", "2", "3", "4", "5", "6", "7", "8", "9">>[d + 1]

\* port.to_string() and the `{}` of format! applied to a u16: decimal digits
RECURSIVE to_string(_)
to_string(n) ==
    IF n < 10 THEN <<DigitChar(n)>>
    ELSE to_string(n \div 10) \o <<DigitChar(n % 10)>>

\* format!("http://localhost:{}", port)
base_url_of(p) == <<"http://localhost:">> \o to_string(p)

\* format!("http://localhost:{}/health", port)
health_url_of(p) == <<"http://localhost:">> \o to_string(p) \o <<"/health">>

\* (variant: the URL is built with the first port of the range)
PythonBackendFixedUrl(p) ==
    [process |-> TRUE, port |-> p, base_url |-> base_url_of(PortStart)]

\* Ok(Self { process: Some(child), port, base_url })
PythonBackend(p) == [process |-> TRUE, port |-> p, base_url |-> base_url_of(p)]

\* (variant: the process is borrowed, not taken)
TakeProcessKeep(b) == b

\* self.process.take(): the supervisor keeps no process afterwards
TakeProcess(b) == [b EXCEPT !.process = FALSE]

\* (variant: the handle is copied out and the slot keeps it)
SlotAfterTakeKeep(s) == s

\* backend_guard.take(): the slot is left empty
SlotAfterTake(s) == None

\* (variant: the backend is not put into the slot)
SlotAfterStoreSkip(s, b) == s

\* *backend_guard = Some(backend)
SlotAfterStore(s, b) == Some(b)

\* b.port()
port(b) == b.port

\* (variant: the port of the range's start is reported for an empty slot)
backend_port_or_default(guard) ==
    IF guard = None THEN Some(PortStart) ELSE Some(port(unwrap(guard)))

\* backend_guard.as_ref().map(|b| b.port())
backend_port(guard) ==
    IF guard = None THEN None ELSE Some(port(unwrap(guard)))

\* force.unwrap_or(false)
unwrap_or_false(f) == IF f = None THEN FALSE ELSE unwrap(f)

\* (variant: a failed status check is reported as still running)
is_running_result_optimistic(b, c, ok) ==
    IF b.process THEN (IF ok THEN c = "running" ELSE TRUE) ELSE FALSE

\* PythonBackend::is_running on supervisor b, the child being in OS state c
\* and try_wait() succeeding (ok) or failing: Ok(None) => true,
\* Ok(Some(_)) => false, Err(_) => false, no process => false.
is_running_result(b, c, ok) ==
    IF b.process THEN (IF ok THEN c = "running" ELSE FALSE) ELSE FALSE

\* (variant: is_running takes the child out of the supervisor)
AfterIsRunningTake(b) == [b EXCEPT !.process = FALSE]

\* The supervisor after is_running(): `if let Some(ref mut child)` borrows
\* the process in place and no field is assigned.
AfterIsRunning(b) == b

\* ------------------------------------------------------------ port allocator
is_port_available(p) == p \in freePorts

\* `for port in start..=end { if is_port_available(port) { return Some(port) } }`:
\* the first bindable port of the ascending scan, None when there is none.
find_available_port(start, end) ==
    LET bindable == {p \in start..end : is_port_available(p)}
    IN  IF bindable = {} THEN None
        ELSE Some(CHOOSE p \in bindable : \A q \in bindable : p <= q)

\* ------------------------------------------------------------------- Init
InitTrigger ==
    [pc |-> "idle", kind |-> "-", force |-> None, local |-> None, took |-> FALSE,
     mode |-> "-", polls |-> 0, sdres |-> "-", shut |-> "-", after |-> "-",
     seqs |-> 0, dropSeqs |-> 0, sigs |-> 0, sawExit |-> FALSE, pollErr |-> FALSE,
     sigErr |-> FALSE, elapsed |-> FALSE,
     forcedLog |-> FALSE, exits |-> <<>>, res |-> "-"]

InitLaunch ==
    [pc |-> "start", port |-> 0, health_url |-> <<>>, attempt |-> 0,
     probes |-> 0, sleeps |-> 0, err |-> None, backend |-> None,
     logged |-> FALSE, notified |-> FALSE, reported |-> <<>>]

\* No scan in progress.
IdleScan ==
    [pc |-> "idle", start |-> 0, end |-> 0, cur |-> 0, exhausted |-> FALSE,
     port |-> 0, holding |-> FALSE, examined |-> <<>>, result |-> None]

InitOs ==
    [spawns |-> 0, port |-> <<>>, seqStarted |-> 0, sigterms |-> 0,
     kills |-> 0, waits |-> 0, err |-> FALSE, isr |-> None]

Init ==
    /\ unix \in BOOLEAN
    /\ freePorts \in FreePortChoices
    /\ scan = IdleScan
    /\ max_attempts = DefaultMaxAttempts
    /\ timeout_secs = DefaultTimeoutSecs
    /\ child = "none"
    /\ os = InitOs
    /\ launch = InitLaunch
    /\ slot = None
    /\ lock = Free
    /\ navigated = FALSE
    /\ tr = [t \in Triggers |-> InitTrigger]
    /\ exitReqs = {}
    /\ exited = None
    /\ info = None

Running == exited = None

\* ------------------------------------------------- the operating system
\* The child exits on its own (a crash, or its reaction to SIGTERM).
ChildExits ==
    /\ Running
    /\ child = "running"
    /\ child' = "zombie"
    /\ UNCHANGED <<env, info, scan, os, launch, slot, lock,
                   navigated, tr, exitReqs, exited>>

\* ------------------------------------------- PythonBackend::launch (task)
\* `.context("No available ports found in range 8000-9000")?` on the
\* Option p returned by find_available_port
AfterFindPort(l, p) ==
    IF p = None
    THEN [l EXCEPT !.pc = "failed", !.err = <<"PortExhausted">>]
    ELSE [l EXCEPT !.pc = "resolve", !.port = unwrap(p)]

\* find_available_port(8000, 9000).context(..)?
LaunchFindPort ==
    /\ Running
    /\ launch.pc = "start"
    /\ launch' = AfterFindPort(launch, find_available_port(PortStart, PortEnd))
    /\ UNCHANGED <<env, info, scan, child, os, slot, lock,
                   navigated, tr, exitReqs, exited>>

\* (variant: a failed resolution or existence check is noted, not returned)
ResolveStepNoReturn(l, o) ==
    IF o = "ok"
    THEN [l EXCEPT !.pc = "spawn"]
    ELSE [l EXCEPT !.pc = "spawn", !.err = <<"ConfigurationError", o>>]

\* get_database_path(..)?, get_python_paths(..)? and the two exists()
\* checks: each failure returns its error from launch at once.
ResolveStep(l, o) ==
    IF o = "ok"
    THEN [l EXCEPT !.pc = "spawn"]
    ELSE [l EXCEPT !.pc = "failed", !.err = <<"ConfigurationError", o>>]

LaunchResolve ==
    /\ Running
    /\ launch.pc = "resolve"
    /\ \E o \in ResolveOutcomes : launch' = ResolveStep(launch, o)
    /\ UNCHANGED <<env, info, scan, child, os, slot, lock,
                   navigated, tr, exitReqs, exited>>

\* command.spawn().context(..)?
LaunchSpawn ==
    /\ Running
    /\ launch.pc = "spawn"
    /\ \E ok \in BOOLEAN :
         IF ok
         THEN /\ child' = "running"
              /\ os' = [os EXCEPT !.spawns = @ + 1,
                                  !.port = to_string(launch.port)]
              /\ launch' = [launch EXCEPT !.pc = "probe", !.attempt = 1,
                                 !.health_url = health_url_of(launch.port)]
         ELSE /\ launch' = [launch EXCEPT !.pc = "failed", !.err = <<"SpawnFailure">>]
              /\ UNCHANGED <<child, os>>
    /\ UNCHANGED <<env, info, scan, slot, lock, navigated, tr,
                   exitReqs, exited>>

\* anyhow!("Python backend failed to become ready after {} attempts
\* ({} seconds)", config.max_attempts, config.timeout_secs)
ReadinessTimeout(attempts, secs) == <<"ReadinessTimeout", attempts, secs>>

\* (variant: a launch whose probes are exhausted spawns the child again)
ProbeStepRespawn(l, o) ==
    IF l.attempt > max_attempts
    THEN [l EXCEPT !.pc = "failed",
                   !.err = ReadinessTimeout(max_attempts, timeout_secs)]
    ELSE IF o = "success"
    THEN [l EXCEPT !.pc = "ready", !.probes = @ + 1,
                   !.backend = Some(PythonBackend(l.port))]
    ELSE IF l.attempt < max_attempts
    THEN [l EXCEPT !.probes = @ + 1, !.sleeps = @ + 1, !.attempt = @ + 1]
    ELSE [l EXCEPT !.pc = "spawn", !.probes = 0, !.sleeps = 0, !.attempt = 0]

\* (variant: the retry delay is slept after every failed probe, the last too)
ProbeStepSleepLast(l, o) ==
    IF l.attempt > max_attempts
    THEN [l EXCEPT !.pc = "failed",
                   !.err = ReadinessTimeout(max_attempts, timeout_secs)]
    ELSE IF o = "success"
    THEN [l EXCEPT !.pc = "ready", !.probes = @ + 1,
                   !.backend = Some(PythonBackend(l.port))]
    ELSE IF l.attempt < max_attempts
    THEN [l EXCEPT !.probes = @ + 1, !.sleeps = @ + 1, !.attempt = @ + 1]
    ELSE [l EXCEPT !.pc = "failed", !.probes = @ + 1, !.sleeps = @ + 1,
                   !.err = ReadinessTimeout(max_attempts, timeout_secs)]

\* (variant: the retry delay is slept after every probe, a successful one too)
ProbeStepSleepAlways(l, o) ==
    IF l.attempt > max_attempts
    THEN [l EXCEPT !.pc = "failed",
                   !.err = ReadinessTimeout(max_attempts, timeout_secs)]
    ELSE IF o = "success"
    THEN [l EXCEPT !.pc = "ready", !.probes = @ + 1, !.sleeps = @ + 1,
                   !.backend = Some(PythonBackend(l.port))]
    ELSE IF l.attempt < max_attempts
    THEN [l EXCEPT !.probes = @ + 1, !.sleeps = @ + 1, !.attempt = @ + 1]
    ELSE [l EXCEPT !.pc = "failed", !.probes = @ + 1,
                   !.err = ReadinessTimeout(max_attempts, timeout_secs)]

\* (variant: a network error ends the loop with that error, as the `?` of
\* check_backend_health does)
ProbeStepSurface(l, o) ==
    IF l.attempt > max_attempts
    THEN [l EXCEPT !.pc = "failed",
                   !.err = ReadinessTimeout(max_attempts, timeout_secs)]
    ELSE IF o = "success"
    THEN [l EXCEPT !.pc = "ready", !.probes = @ + 1,
                   !.backend = Some(PythonBackend(l.port))]
    ELSE IF o = "network_error"
    THEN [l EXCEPT !.pc = "failed", !.probes = @ + 1,
                   !.err = <<"ProbeError", o>>]
    ELSE IF l.attempt < max_attempts
    THEN [l EXCEPT !.probes = @ + 1, !.sleeps = @ + 1, !.attempt = @ + 1]
    ELSE [l EXCEPT !.pc = "failed", !.probes = @ + 1,
                   !.err = ReadinessTimeout(max_attempts, timeout_secs)]

\* (variant: the loop gives up as soon as the child is seen to have exited)
ProbeStepCancelOnExit(l, o) ==
    IF l.attempt > max_attempts \/ child # "running"
    THEN [l EXCEPT !.pc = "failed",
                   !.err = ReadinessTimeout(max_attempts, timeout_secs)]
    ELSE IF o = "success"
    THEN [l EXCEPT !.pc = "ready", !.probes = @ + 1,
                   !.backend = Some(PythonBackend(l.port))]
    ELSE IF l.attempt < max_attempts
    THEN [l EXCEPT !.probes = @ + 1, !.sleeps = @ + 1, !.attempt = @ + 1]
    ELSE [l EXCEPT !.pc = "failed", !.probes = @ + 1,
                   !.err = ReadinessTimeout(max_attempts, timeout_secs)]

\* One iteration of the loop of wait_for_backend_ready (probe, then sleep
\* while attempts remain), and what launch does with its result: on Err the
\* `?` returns the error and the local Child value is dropped, which leaves
\* the OS process alone; on Ok the PythonBackend is built.
ProbeStep(l, o) ==
    IF l.attempt > max_attempts
    THEN [l EXCEPT !.pc = "failed",
                   !.err = ReadinessTimeout(max_attempts, timeout_secs)]
    ELSE IF o = "success"
    THEN [l EXCEPT !.pc = "ready", !.probes = @ + 1,
                   !.backend = Some(PythonBackend(l.port))]
    ELSE IF l.attempt < max_attempts
    THEN [l EXCEPT !.probes = @ + 1, !.sleeps = @ + 1, !.attempt = @ + 1]
    ELSE [l EXCEPT !.pc = "failed", !.probes = @ + 1,
                   !.err = ReadinessTimeout(max_attempts, timeout_secs)]

LaunchProbe ==
    /\ Running
    /\ launch.pc = "probe"
    /\ \E o \in ProbeOutcomes : launch' = ProbeStep(launch, o)
    /\ UNCHANGED <<env, info, scan, child, os, slot, lock,
                   navigated, tr, exitReqs, exited>>

\* The anyhow::Error launch returns for error value e, as its chain of
\* messages, outermost first; a message is a sequence of pieces of text.
\* `.context(m)` puts m in front of the error it wraps; an Option turned
\* into an error by `.context(m)` and an anyhow!(m) have the one message.
ErrorChain(e) ==
    IF e[1] = "PortExhausted"
    THEN << <<"No available ports found in range 8000-9000">> >>
    ELSE IF e[1] = "SpawnFailure"
    THEN << <<"Failed to spawn Python backend process">>,
            <<"io_error_text">> >>
    ELSE IF e[1] = "ReadinessTimeout"
    THEN << <<"Python backend failed health check">>,
            <<"Python backend failed to become ready after ">>
               \o to_string(e[2]) \o <<" attempts (">>
               \o to_string(e[3]) \o <<" seconds)">> >>
    ELSE IF e[2] = "app_data_dir"
    THEN << <<"Failed to get app data directory: ", "tauri_error_text">> >>
    ELSE IF e[2] = "create_dir_all"
    THEN << <<"io_error_text">> >>
    ELSE IF e[2] = "python_paths"
    THEN << <<"Python venv not found in development mode">> >>
    ELSE IF e[2] = "python_missing"
    THEN << <<"Python interpreter not found at: ", "python_path">> >>
    ELSE << <<"App root directory not found at: ", "app_root">> >>

\* format!("{}", e) of an anyhow::Error: its outermost message only
Display(chain) == chain[1]

\* (variant: the Err branch ends the process with status 0)
FailedExitZero(c) == Some([via |-> "launch", code |-> 0, child |-> c])

\* std::process::exit(1), the child being in state c
FailedExit(c) == Some([via |-> "launch", code |-> 1, child |-> c])

\* Err branch of the launch task: error!(..), logger.log_error(..), the
\* alert, eprintln!(..) and std::process::exit(1)
LaunchFailed ==
    /\ Running
    /\ launch.pc = "failed"
    /\ launch' = [launch EXCEPT !.pc = "exited", !.logged = TRUE,
                                 !.reported = Display(ErrorChain(launch.err))]
    /\ exited' = FailedExit(child)
    /\ UNCHANGED <<env, info, scan, child, os, slot, lock,
                   navigated, tr, exitReqs>>

\* Ok branch: logger.log_python_backend_ready(port);
\* backend_mutex.lock().await; *backend_guard = Some(backend).
\* The counters of the finished probe loop are kept while launch.pc is
\* "ready" or "failed" and are cleared here, their scope having ended.
LaunchStore ==
    /\ Running
    /\ launch.pc = "ready"
    /\ lock = Free
    /\ lock' = LaunchTask
    /\ slot' = SlotAfterStore(slot, unwrap(launch.backend))
    /\ launch' = [launch EXCEPT !.pc = "stored", !.backend = None,
                                 !.notified = TRUE,
                                 !.attempt = 0, !.probes = 0, !.sleeps = 0]
    /\ UNCHANGED <<env, info, scan, child, os, navigated, tr,
                   exitReqs, exited>>

\* window.navigate(base_url) when the main window exists; the guard is
\* released when the branch ends
LaunchNavigate ==
    /\ Running
    /\ launch.pc = "stored"
    /\ \E ok \in BOOLEAN : navigated' = ok
    /\ lock' = Free
    /\ launch' = [launch EXCEPT !.pc = "done"]
    /\ UNCHANGED <<env, info, scan, child, os, slot, tr,
                   exitReqs, exited>>

\* --------------------------------------------- PythonBackend::shutdown
Set(t, r) == [tr EXCEPT ![t] = r]

\* (variant: shutdown of a supervisor without process is an error)
ShutdownOnAbsentErr(me) == [me EXCEPT !.sdres = "Err", !.pc = "returned"]

\* shutdown() when self.process is None: the `if let` is skipped, Ok(())
ShutdownOnAbsent(me) == [me EXCEPT !.sdres = "Ok", !.pc = "returned"]

\* (variant: a SIGTERM that could not be sent ends shutdown() with an Err)
AfterSigtermAbort(failed) == IF failed THEN "returned" ELSE "poll"

\* Position after `unsafe { libc::kill(child.id() as i32, libc::SIGTERM); }`:
\* the value libc::kill returns is discarded, the polling loop follows.
AfterSigterm(failed) == "poll"

\* `if let Some(mut child) = self.process.take()`: with a process held the
\* termination sequence starts (on unix with SIGTERM, which the operating
\* system may refuse; sigErr keeps whether it did); with none the call
\* returns Ok at once.
ShutdownEntry(t) ==
    /\ Running
    /\ tr[t].pc = "shutdown"
    /\ LET me == tr[t] IN
       IF unwrap(me.local).process
       THEN \E failed \in (IF unix THEN BOOLEAN ELSE {FALSE}) :
            /\ os' = [os EXCEPT !.seqStarted = @ + 1,
                                !.sigterms = IF unix THEN @ + 1 ELSE @]
            /\ tr' = Set(t, [me EXCEPT
                     !.local = Some(TakeProcess(unwrap(me.local))),
                     !.seqs = @ + 1,
                     !.dropSeqs = IF me.mode = "drop" THEN @ + 1 ELSE @,
                     !.sigs = IF unix THEN @ + 1 ELSE @,
                     !.sigErr = failed,
                     !.sdres = IF AfterSigterm(failed) = "returned"
                               THEN "Err" ELSE @,
                     !.polls = 0,
                     !.pc = IF unix THEN AfterSigterm(failed) ELSE "kill"])
       ELSE /\ tr' = Set(t, ShutdownOnAbsent(me))
            /\ UNCHANGED os
    /\ UNCHANGED <<env, info, scan, child, launch, slot, lock,
                   navigated, exitReqs, exited>>

\* (variant: the loop polls until the child has exited)
AfterRunningPollUnbounded(n) == "poll"

\* (variant: the forced kill follows the first poll that reports running)
AfterRunningPollImpatient(n) == "kill"

\* The loop counter `polls` is local to one run of the loop: it is 0 again
\* once the loop has been left and the next statement has run.
\* Position after a poll that reported the child still running.
AfterRunningPoll(n) == IF n = GracePolls THEN "kill" ELSE "poll"

\* (variant: the graceful exit does not return, the code falls through)
AfterExitedPollFallThrough == "kill"

\* Position after a poll that reported the child exited: `return Ok(())`.
AfterExitedPoll == "returned"

\* One iteration of `for _ in 0..50 { match child.try_wait() .. }`:
\* Ok(Some) reaps the child and returns Ok, Ok(None) sleeps 100 ms,
\* Err breaks out of the loop.
ShutdownPoll(t) ==
    /\ Running
    /\ tr[t].pc = "poll"
    /\ LET me == tr[t] IN
       \E o \in {"status", "error"} :
         IF o = "error"
         THEN /\ tr' = Set(t, [me EXCEPT !.pollErr = TRUE, !.pc = "kill"])
              /\ os' = [os EXCEPT !.err = TRUE]
              /\ UNCHANGED child
         ELSE IF child = "running"
         THEN /\ tr' = Set(t, [me EXCEPT !.polls = @ + 1,
                                         !.elapsed = (me.polls + 1 = GracePolls),
                                         !.pc = AfterRunningPoll(me.polls + 1)])
              /\ UNCHANGED <<child, os>>
         ELSE /\ child' = "reaped"
              /\ tr' = Set(t, [me EXCEPT !.polls = 0, !.sawExit = TRUE,
                                         !.sdres = "Ok",
                                         !.pc = AfterExitedPoll])
              /\ UNCHANGED os
    /\ UNCHANGED <<env, info, scan, launch, slot, lock,
                   navigated, exitReqs, exited>>

\* warn!("Force killing ..."); child.kill().context(..)?
ShutdownKill(t) ==
    /\ Running
    /\ tr[t].pc = "kill"
    /\ LET me == tr[t] IN
       \E ok \in BOOLEAN :
         IF ok
         THEN /\ child' = IF child = "running" THEN "zombie" ELSE child
              /\ os' = [os EXCEPT !.kills = @ + 1]
              /\ tr' = Set(t, [me EXCEPT !.forcedLog = TRUE, !.sigs = @ + 1,
                                         !.polls = 0, !.pc = "wait"])
         ELSE /\ os' = [os EXCEPT !.kills = @ + 1, !.err = TRUE]
              /\ tr' = Set(t, [me EXCEPT !.forcedLog = TRUE, !.sigs = @ + 1,
                                         !.polls = 0,
                                         !.sdres = "Err", !.pc = "returned"])
              /\ UNCHANGED child
    /\ UNCHANGED <<env, info, scan, launch, slot, lock,
                   navigated, exitReqs, exited>>

\* child.wait().context(..)?: blocks until the child has exited, reaps it
ShutdownWait(t) ==
    /\ Running
    /\ tr[t].pc = "wait"
    /\ LET me == tr[t] IN
       \E ok \in BOOLEAN :
         IF ok
         THEN /\ child # "running"
              /\ child' = "reaped"
              /\ os' = [os EXCEPT !.waits = @ + 1]
              /\ tr' = Set(t, [me EXCEPT !.sdres = "Ok", !.pc = "returned"])
         ELSE /\ os' = [os EXCEPT !.waits = @ + 1, !.err = TRUE]
              /\ tr' = Set(t, [me EXCEPT !.sdres = "Err", !.pc = "returned"])
              /\ UNCHANGED child
    /\ UNCHANGED <<env, info, scan, launch, slot, lock,
                   navigated, exitReqs, exited>>

\* impl Drop for PythonBackend: the shutdown() made by drop has returned
\* (an Err is only logged) and the value is gone.
DropReturned(t) ==
    /\ Running
    /\ tr[t].pc = "returned"
    /\ tr[t].mode = "drop"
    /\ tr' = Set(t, [tr[t] EXCEPT !.local = None, !.mode = "-",
                                  !.pc = tr[t].after])
    /\ UNCHANGED <<env, info, scan, child, os, launch, slot,
                   lock, navigated, exitReqs, exited>>

\* ----------------------------------------------------- the shared slot
\* (variant: the taken backend's shutdown is not called before the tail)
AfterTakeSkip(s) == "tail"

\* `if let Some(mut backend) = guard.take() { backend.shutdown() .. }`: with
\* a backend taken its shutdown() is called next, with none the tail follows.
AfterTake(s) == IF s # None THEN "shutdown" ELSE "tail"

\* `let mut guard = mutex.lock().await; if let Some(mut backend) = guard.take()`
TakeFromSlot(t) ==
    /\ lock = Free
    /\ lock' = Holder(t)
    /\ slot' = IF slot = None THEN None ELSE SlotAfterTake(slot)
    /\ tr' = Set(t, [tr[t] EXCEPT !.local = slot, !.took = (slot # None),
                                  !.mode = "explicit",
                                  !.pc = AfterTake(slot)])

\* The trigger numbered t is the next one to be invoked.
NextToInvoke(t) ==
    /\ tr[t].pc = "idle"
    /\ \A u \in Triggers : u < t => tr[u].pc # "idle"

IsQuit(t) == tr[t].kind = "quit_app"
IsClose(t) == tr[t].kind = "CloseRequested"

\* ------------------------------------------------------------ quit_app
QuitInvoke(t) ==
    /\ Running
    /\ NextToInvoke(t)
    /\ \E f \in ForceArgs :
         tr' = Set(t, [tr[t] EXCEPT !.kind = "quit_app", !.force = f,
                                    !.pc = "locking"])
    /\ UNCHANGED <<env, info, scan, child, os, launch, slot,
                   lock, navigated, exitReqs, exited>>

QuitLock(t) ==
    /\ Running
    /\ IsQuit(t)
    /\ tr[t].pc = "locking"
    /\ TakeFromSlot(t)
    /\ UNCHANGED <<env, info, scan, child, os, launch,
                   navigated, exitReqs, exited>>

\* (variant: a shutdown error never keeps quit_app from exiting)
QuitContinuationAlwaysExit(r, force) == "tail"

\* Where quit_app continues once backend.shutdown() has returned r.
QuitContinuation(r, force) ==
    IF r = "Err" /\ ~unwrap_or_false(force) THEN "return_err" ELSE "tail"

\* Exit codes quit_app requests in the Err branch of backend.shutdown().
QuitErrExits(r, force) ==
    IF r = "Err" /\ unwrap_or_false(force) THEN <<1>> ELSE <<>>

ExitReqsOf(via, codes) == {[via |-> via, code |-> codes[i]] : i \in DOMAIN codes}

\* backend.shutdown() has returned in quit_app: on Err either app.exit(1)
\* (force) or `return Err`; then `backend` goes out of scope and is dropped.
QuitAfterShutdown(t) ==
    /\ Running
    /\ IsQuit(t)
    /\ tr[t].pc = "returned"
    /\ tr[t].mode = "explicit"
    /\ LET me == tr[t]
           codes == QuitErrExits(me.sdres, me.force)
       IN  /\ tr' = Set(t, [me EXCEPT
                      !.shut = me.sdres,
                      !.exits = @ \o codes,
                      !.after = QuitContinuation(me.sdres, me.force),
                      !.mode = "drop", !.pc = "shutdown"])
           /\ exitReqs' = exitReqs \cup ExitReqsOf("quit_app", codes)
    /\ UNCHANGED <<env, info, scan, child, os, launch, slot,
                   lock, navigated, exited>>

\* state.logger.log_shutdown(); app.exit(0); Ok(())
QuitTail(t) ==
    /\ Running
    /\ IsQuit(t)
    /\ tr[t].pc = "tail"
    /\ tr' = Set(t, [tr[t] EXCEPT !.exits = @ \o <<0>>, !.res = "Ok",
                                  !.pc = "done"])
    /\ exitReqs' = exitReqs \cup ExitReqsOf("quit_app", <<0>>)
    /\ lock' = Free
    /\ UNCHANGED <<env, info, scan, child, os, launch, slot,
                   navigated, exited>>

\* return Err(format!("Failed to shutdown backend: {}", e))
QuitReturnErr(t) ==
    /\ Running
    /\ IsQuit(t)
    /\ tr[t].pc = "return_err"
    /\ tr' = Set(t, [tr[t] EXCEPT !.res = "Err", !.pc = "done"])
    /\ lock' = Free
    /\ UNCHANGED <<env, info, scan, child, os, launch, slot,
                   navigated, exitReqs, exited>>

\* ------------------------------------- on_window_event(CloseRequested)
CloseInvoke(t) ==
    /\ Running
    /\ NextToInvoke(t)
    /\ tr' = Set(t, [tr[t] EXCEPT !.kind = "CloseRequested",
                                  !.pc = "locking"])
    /\ UNCHANGED <<env, info, scan, child, os, launch, slot,
                   lock, navigated, exitReqs, exited>>

CloseLock(t) ==
    /\ Running
    /\ IsClose(t)
    /\ tr[t].pc = "locking"
    /\ TakeFromSlot(t)
    /\ UNCHANGED <<env, info, scan, child, os, launch,
                   navigated, exitReqs, exited>>

\* backend.shutdown() has returned in the handler (an Err is only logged);
\* `backend` goes out of scope and is dropped.
CloseAfterShutdown(t) ==
    /\ Running
    /\ IsClose(t)
    /\ tr[t].pc = "returned"
    /\ tr[t].mode = "explicit"
    /\ tr' = Set(t, [tr[t] EXCEPT !.shut = tr[t].sdres, !.after = "tail",
                                  !.mode = "drop", !.pc = "shutdown"])
    /\ UNCHANGED <<env, info, scan, child, os, launch, slot,
                   lock, navigated, exitReqs, exited>>

\* block_on returns, logger.log_shutdown(); the handler returns without
\* preventing the close, so the window closes and the application exits.
CloseTail(t) ==
    /\ Running
    /\ IsClose(t)
    /\ tr[t].pc = "tail"
    /\ tr' = Set(t, [tr[t] EXCEPT !.res = "Ok", !.pc = "done"])
    /\ exitReqs' = exitReqs \cup ExitReqsOf("CloseRequested", <<0>>)
    /\ lock' = Free
    /\ UNCHANGED <<env, info, scan, child, os, launch, slot,
                   navigated, exited>>

\* ------------------------------------------- PythonBackend::is_running
\* A holder of the slot's lock calls is_running() on the stored supervisor.
\* child.try_wait() either fails or reports the state of the child, and
\* collects the exit status of a child that has exited; os.isr keeps what
\* the last call returned, the state of the child it met and whether
\* try_wait succeeded.
IsRunningCall ==
    /\ Running
    /\ lock = Free
    /\ slot # None
    /\ LET b == unwrap(slot) IN
       \E ok \in BOOLEAN :
         /\ os' = [os EXCEPT !.isr =
                      Some([result |-> is_running_result(b, child, ok),
                            before |-> child, ok |-> ok])]
         /\ child' = IF b.process /\ ok /\ child = "zombie"
                     THEN "reaped" ELSE child
         /\ slot' = Some(AfterIsRunning(b))
    /\ UNCHANGED <<env, info, scan, launch, lock, navigated, tr, exitReqs, exited>>

\* ------------------------------------------------------------ app_ready
\* What get_database_path_static() can return to app_ready: the path, or an
\* error that app_ready logs and turns into None.
DatabasePathResults == {Some("webterminal.db"), None}

\* The app_ready command: it locks the slot, reads the port through a shared
\* reference, resolves the database path and returns the AppInfo; the guard
\* is released when the command returns. version and platform are fixed by
\* the build and are left out.
AppReady ==
    /\ Running
    /\ lock = Free
    /\ \E dbp \in DatabasePathResults :
         info' = Some([backend_port |-> backend_port(slot),
                       database_path |-> dbp])
    /\ UNCHANGED <<env, scan, child, os, launch, slot, lock,
                   navigated, tr, exitReqs, exited>>

\* ------------------------------------------------------ application exit
\* A requested exit takes effect: the process of the application ends.
ProcessExit ==
    /\ Running
    /\ \E r \in exitReqs :
         exited' = Some([via |-> r.via, code |-> r.code, child |-> child])
    /\ UNCHANGED <<env, info, scan, child, os, launch, slot,
                   lock, navigated, tr, exitReqs>>

\* ------------------------------------------------------------------ Next
\* The steps of the launch task.
LaunchNext ==
    \/ LaunchFindPort
    \/ LaunchResolve
    \/ LaunchSpawn
    \/ LaunchProbe
    \/ LaunchFailed
    \/ LaunchStore
    \/ LaunchNavigate

\* The steps of shutdown trigger t.
TriggerNext(t) ==
    \/ QuitInvoke(t)
    \/ QuitLock(t)
    \/ QuitAfterShutdown(t)
    \/ QuitTail(t)
    \/ QuitReturnErr(t)
    \/ CloseInvoke(t)
    \/ CloseLock(t)
    \/ CloseAfterShutdown(t)
    \/ CloseTail(t)
    \/ ShutdownEntry(t)
    \/ ShutdownPoll(t)
    \/ ShutdownKill(t)
    \/ ShutdownWait(t)
    \/ DropReturned(t)

Next ==
    \/ ChildExits
    \/ LaunchNext
    \/ \E t \in Triggers : TriggerNext(t)
    \/ ProcessExit

Spec == Init /\ [][Next]_vars

\* The program with one shutdown trigger, the first.
NextOneTrigger ==
    \/ ChildExits
    \/ LaunchNext
    \/ TriggerNext(1)
    \/ ProcessExit

\* The program with a caller of is_running(), which the shell itself has
\* not, and the one shutdown trigger that can follow the call.
NextIsRunning ==
    \/ IsRunningCall
    \/ NextOneTrigger

SpecIsRunning == Init /\ [][NextIsRunning]_vars

\* The program with the frontend calling app_ready at any time, and one
\* shutdown trigger.
NextAppReady ==
    \/ AppReady
    \/ NextOneTrigger

SpecAppReady == Init /\ [][NextAppReady]_vars

\* ===================================================================
\* Properties
\* ===================================================================
Done(t) == tr[t].pc = "done"

\* The explicit backend.shutdown() of trigger t has just returned.
Returned(t) == tr[t].pc = "returned" /\ tr[t].mode = "explicit"

\* The places a PythonBackend value can be in: the slot, the launch task
\* (between the return of launch and the store), a trigger's local.
LiveHandles ==
    {<<"slot">> : x \in {h \in {slot} : h # None /\ unwrap(h).process}}
    \cup {<<"launch">> : x \in {h \in {launch.backend} :
                                  h # None /\ unwrap(h).process}}
    \cup {<<"trigger", t>> : t \in {u \in Triggers :
                 tr[u].local # None /\ unwrap(tr[u].local).process}}

\* C1: once launch has returned the readiness failure, the spawned child is
\* no longer running (launch killed it before returning the error).
C1_NoOrphanAfterReadinessFailure ==
    launch.err = ReadinessTimeout(max_attempts, timeout_secs)
        => child # "running"

\* C2: on the normal exit paths (quit_app, window CloseRequested) no spawned
\* child is still running at the moment the application exits.
C2_BackendNeverOutlivesApp ==
    (exited # None /\ unwrap(exited).via \in {"quit_app", "CloseRequested"})
        => unwrap(exited).child # "running"

\* C3: the termination sequence is started at most once for the child: only
\* a trigger that took the handle out of the slot runs it, it runs it once,
\* and the Drop after its explicit shutdown() finds no process and sends
\* nothing.
C3_SequenceAtMostOnce ==
    /\ os.seqStarted <= 1
    /\ os.sigterms <= 1
    /\ os.kills <= 1
    /\ \A t \in Triggers :
         /\ tr[t].seqs > 0 => tr[t].took
         /\ tr[t].dropSeqs = 0
         /\ tr[t].mode = "drop" =>
              /\ tr[t].pc \in {"shutdown", "returned"}
              /\ ~unwrap(tr[t].local).process
    /\ \A t, u \in Triggers : (tr[t].seqs > 0 /\ tr[u].seqs > 0) => t = u

\* C3 witness: a quit_app and a close handler have both finished, one of
\* them having taken the handle and run the sequence, its Drop included.
C3_Witness ==
    \E t, u \in Triggers :
        /\ Done(t) /\ Done(u)
        /\ tr[t].kind # tr[u].kind
        /\ tr[t].took /\ tr[t].seqs = 1 /\ tr[t].local = None
        /\ os.seqStarted = 1

\* C4: two triggers have both returned, one of them having found the handle,
\* and no OS call failed: the child is not running (it is reaped), exactly
\* one of the two ran the sequence, and the other found the slot empty,
\* returned success and sent no signal.
C4_TwoTriggers ==
    ~os.err =>
      \A t, u \in Triggers :
        (t # u /\ Done(t) /\ Done(u) /\ tr[t].took) =>
            /\ child = "reaped"
            /\ tr[t].seqs = 1
            /\ tr[t].res = "Ok"
            /\ ~tr[u].took
            /\ tr[u].seqs = 0
            /\ tr[u].sigs = 0
            /\ tr[u].res = "Ok"

\* C4 witness: both triggers are done without OS error, the one that took
\* the handle sent signals, the other one sent none.
C4_Witness ==
    \E t, u \in Triggers :
        /\ t # u /\ Done(t) /\ Done(u)
        /\ ~os.err
        /\ tr[t].took /\ tr[t].sigs > 0
        /\ ~tr[u].took /\ tr[u].sigs = 0
        /\ child = "reaped"

\* C5: a shutdown() entered on a supervisor that holds no process returns
\* Ok and changes neither the supervisor nor the child nor what has been
\* sent to it, so shutdown twice leaves the state of shutdown once.
C5_ShutdownIdempotent ==
    [][\A t \in Triggers :
        (/\ tr[t].pc = "shutdown"
         /\ ~unwrap(tr[t].local).process
         /\ tr'[t] # tr[t])
        => /\ tr'[t].pc = "returned"
           /\ tr'[t].sdres = "Ok"
           /\ tr'[t].local = tr[t].local
           /\ tr'[t].sigs = tr[t].sigs
           /\ tr'[t].seqs = tr[t].seqs
           /\ os' = os
           /\ child' = child]_vars

\* C5 witness: the second shutdown() (the one made by Drop) has returned Ok
\* on a supervisor whose first shutdown() ran the sequence.
C5_Witness ==
    \E t \in Triggers :
        /\ tr[t].mode = "drop" /\ tr[t].pc = "returned"
        /\ tr[t].sdres = "Ok"
        /\ tr[t].seqs = 1 /\ tr[t].shut # "-"
        /\ ~unwrap(tr[t].local).process

\* C6: every quit_app invocation that has returned has requested the exit of
\* the application, whatever force was and whatever shutdown() returned.
C6_QuitAlwaysExits ==
    \A t \in Triggers :
        (IsQuit(t) /\ Done(t)) => tr[t].exits # <<>>

\* C6 (amended): a quit_app invocation that has returned has requested exit
\* unless shutdown() returned an error and force was false or absent; in
\* that one case it returned Err and requested no exit. With force true, or
\* with the slot empty, or with shutdown() Ok, exit was requested.
C6_QuitExitsUnlessUnforcedError ==
    \A t \in Triggers :
        (IsQuit(t) /\ Done(t)) =>
            /\ (tr[t].exits = <<>>) <=>
                   (tr[t].shut = "Err" /\ ~unwrap_or_false(tr[t].force))
            /\ (tr[t].res = "Err") <=> (tr[t].exits = <<>>)
            /\ tr[t].shut = "Err" => (tr[t].took /\ os.err)
            /\ ~tr[t].took => (tr[t].shut = "-" /\ tr[t].exits # <<>>)

\* C6 witness: an unforced quit_app whose shutdown() failed has returned Err
\* without requesting exit, and a forced quit_app made after it has found
\* the slot empty and requested exit.
C6_Witness ==
    \E t, u \in Triggers :
        /\ IsQuit(t) /\ Done(t)
        /\ tr[t].shut = "Err" /\ tr[t].force = Some(FALSE)
        /\ tr[t].res = "Err" /\ tr[t].exits = <<>>
        /\ IsQuit(u) /\ Done(u)
        /\ tr[u].force = Some(TRUE) /\ ~tr[u].took /\ tr[u].exits = <<0>>

C8_SingleHandle ==
    /\ Cardinality(LiveHandles) <= 1
    /\ Len(slot) <= 1
    /\ os.spawns <= 1
    /\ LiveHandles # {} => os.spawns = 1

\* C8 witness: the only live handle is in the hands of a trigger that took
\* it out of the slot, which is empty.
C8_Witness ==
    \E t \in Triggers :
        /\ LiveHandles = {<<"trigger", t>>}
        /\ tr[t].took
        /\ slot = None

\* C9: a shutdown() that observed the child exited at a poll of the grace
\* window returns Ok and never issues the forced kill.
C9_GracefulNoKill ==
    \A t \in Triggers :
        tr[t].sawExit =>
            /\ ~tr[t].forcedLog
            /\ os.kills = 0
            /\ tr[t].pc \notin {"kill", "wait"}
            /\ Returned(t) => tr[t].sdres = "Ok"
            /\ tr[t].shut \in {"-", "Ok"}

\* C9 witness: a trigger is done whose shutdown() sent SIGTERM and saw the
\* child exited at a poll.
C9_Witness ==
    \E t \in Triggers :
        /\ Done(t) /\ tr[t].sawExit /\ tr[t].shut = "Ok"
        /\ os.sigterms = 1 /\ os.kills = 0
        /\ child = "reaped"

ShutdownFailed(t) ==
    \/ Returned(t) /\ tr[t].sdres = "Err"
    \/ tr[t].shut = "Err"

\* C11: when kill() or wait() failed during shutdown(), the error is what
\* shutdown() returned and the supervisor holds no process any more: the
\* Drop that follows runs no sequence, is_running() is false whatever
\* try_wait() would say, and the kill is not retried. A shutdown() that ran
\* the sequence and returned Ok has reaped the child.
C11_StoppedAfterFailure ==
    \A t \in Triggers :
        /\ ShutdownFailed(t) =>
              /\ tr[t].forcedLog /\ os.err
              /\ os.kills = 1 /\ os.waits <= 1
              /\ os.seqStarted = 1 /\ tr[t].dropSeqs = 0
              /\ tr[t].local # None =>
                    /\ ~unwrap(tr[t].local).process
                    /\ \A ok \in BOOLEAN :
                          ~is_running_result(unwrap(tr[t].local), child, ok)
        /\ (Returned(t) /\ tr[t].seqs = 1 /\ tr[t].sdres = "Ok") =>
              child = "reaped"

\* C11 witness: the kill failed, shutdown() returned the error, the Drop
\* after it has run, and the child, abandoned, is still running.
C11_Witness ==
    \E t \in Triggers :
        /\ Done(t) /\ tr[t].shut = "Err"
        /\ tr[t].local = None
        /\ os.kills = 1 /\ os.waits = 0
        /\ child = "running"

\* ------------------------------------------- wait_for_backend_ready alone
\* The polling loop entered with any configuration, as launch enters it:
\* the child spawned and running, the allocated port passed in. The reqwest
\* client built before the loop depends on neither the configuration nor the
\* server; the model starts where the loop starts.
InitProbe ==
    /\ unix = TRUE
    /\ freePorts = {}
    /\ scan = IdleScan
    /\ max_attempts \in AttemptChoices
    /\ timeout_secs \in TimeoutChoices
    /\ child = "running"
    /\ \E p \in {PortStart, PortEnd} :
         /\ os = [InitOs EXCEPT !.spawns = 1, !.port = to_string(p)]
         /\ launch = [InitLaunch EXCEPT !.pc = "probe", !.port = p,
                                        !.health_url = health_url_of(p),
                                        !.attempt = 1]
    /\ slot = None
    /\ lock = Free
    /\ navigated = FALSE
    /\ tr = [t \in Triggers |-> InitTrigger]
    /\ exitReqs = {}
    /\ exited = None
    /\ info = None

NextProbe ==
    \/ LaunchProbe
    \/ ChildExits

SpecProbe == InitProbe /\ [][NextProbe]_vars

C13_FirstSuccessEndsLoop ==
    /\ [](launch.pc = "ready" =>
            /\ launch.attempt \in 1..max_attempts
            /\ launch.probes = launch.attempt
            /\ launch.sleeps = launch.attempt - 1
            /\ launch.err = None
            /\ launch.backend # None)
    /\ [][launch.pc = "ready" => launch' = launch]_vars

\* C13 witness: success on the third probe, after two failed ones.
C13_Witness ==
    /\ launch.pc = "ready"
    /\ launch.attempt = 3
    /\ launch.probes = 3
    /\ launch.sleeps = 2
    /\ max_attempts > 3

\* C14: a probe that ends in a non-success status or a network error is one
\* more failed attempt: while attempts remain the loop goes on to the next
\* one without an error, and the loop leaves with an error only after the
\* last attempt, the error being the aggregated timeout.
C14_FailuresRetriedNotSurfaced ==
    [][(launch.pc = "probe" /\ launch' # launch) =>
          \/ /\ launch'.pc = "ready"
             /\ launch'.err = None
          \/ /\ launch'.pc = "probe"
             /\ launch.attempt < max_attempts
             /\ launch'.attempt = launch.attempt + 1
             /\ launch'.probes = launch.probes + 1
             /\ launch'.err = None
          \/ /\ launch'.pc = "failed"
             /\ launch.attempt >= max_attempts
             /\ launch'.err = ReadinessTimeout(max_attempts, timeout_secs)]_vars

\* C14 witness: two probes have failed and the loop, without error, is about
\* to make its third attempt.
C14_Witness ==
    /\ launch.pc = "probe"
    /\ launch.attempt = 3
    /\ launch.probes = 2
    /\ launch.err = None

\* ---------------------------------------------- find_available_port alone
\* `start_port..=end_port` is a RangeInclusive<u16>: it yields nothing once
\* exhausted or when start > end, yields its last element by setting the
\* exhausted flag instead of incrementing, and increments (16 bits wide)
\* otherwise.
RangeHasNext(sc) == ~sc.exhausted /\ sc.cur <= sc.end

\* (variant: a hand-written `port += 1` loop, wrapping at 16 bits)
RangeAdvanceWrapping(sc) ==
    [sc EXCEPT !.port = sc.cur, !.cur = (sc.cur + 1) % (U16Max + 1)]

RangeAdvance(sc) ==
    IF sc.cur < sc.end
    THEN [sc EXCEPT !.port = sc.cur, !.cur = (sc.cur + 1) % (U16Max + 1)]
    ELSE [sc EXCEPT !.port = sc.cur, !.exhausted = TRUE]

\* (variant: the arms of the match on the bind result exchanged)
BindStepInverted(sc, ok) ==
    IF ok
    THEN [sc EXCEPT !.examined = Append(@, sc.port), !.pc = "next"]
    ELSE [sc EXCEPT !.examined = Append(@, sc.port), !.pc = "release"]

\* is_port_available(port): TcpListener::bind(("127.0.0.1", port)); on Ok
\* the listener exists until the match ends, on Err the scan goes on.
BindStep(sc, ok) ==
    IF ok
    THEN [sc EXCEPT !.examined = Append(@, sc.port), !.pc = "release",
                    !.holding = TRUE]
    ELSE [sc EXCEPT !.examined = Append(@, sc.port), !.pc = "next"]

\* next item of the range, or the end of the loop: warn!(..); None
ScanNext ==
    /\ scan.pc = "next"
    /\ scan' = IF RangeHasNext(scan)
               THEN [RangeAdvance(scan) EXCEPT !.pc = "bind"]
               ELSE [scan EXCEPT !.pc = "done", !.result = None]
    /\ UNCHANGED <<env, info, child, os, launch, slot, lock, navigated, tr,
                   exitReqs, exited>>

ScanBind ==
    /\ scan.pc = "bind"
    /\ scan' = BindStep(scan, is_port_available(scan.port))
    /\ UNCHANGED <<env, info, child, os, launch, slot, lock, navigated, tr,
                   exitReqs, exited>>

\* (variant: the listener outlives the call)
ScanReleaseLeak ==
    /\ scan.pc = "release"
    /\ scan' = [scan EXCEPT !.pc = "done", !.result = Some(scan.port)]
    /\ UNCHANGED <<env, info, child, os, launch, slot, lock, navigated, tr,
                   exitReqs, exited>>

\* the listener is dropped, is_port_available returns true and the scan
\* returns Some(port)
ScanRelease ==
    /\ scan.pc = "release"
    /\ scan' = [scan EXCEPT !.holding = FALSE, !.pc = "done",
                            !.result = Some(scan.port)]
    /\ UNCHANGED <<env, info, child, os, launch, slot, lock, navigated, tr,
                   exitReqs, exited>>

\* find_available_port(start, end) called with any two of the ports, any
\* subset of them being bindable.
InitScan ==
    /\ unix = TRUE
    /\ freePorts \in SUBSET ScanPorts
    /\ \E s \in ScanPorts, e \in ScanPorts :
         scan = [IdleScan EXCEPT !.pc = "next", !.start = s, !.end = e,
                                 !.cur = s]
    /\ max_attempts = DefaultMaxAttempts
    /\ timeout_secs = DefaultTimeoutSecs
    /\ child = "none"
    /\ os = InitOs
    /\ launch = InitLaunch
    /\ slot = None
    /\ lock = Free
    /\ navigated = FALSE
    /\ tr = [t \in Triggers |-> InitTrigger]
    /\ exitReqs = {}
    /\ exited = None
    /\ info = None

NextScan ==
    \/ ScanNext
    \/ ScanBind
    \/ ScanRelease

SpecScan == InitScan /\ [][NextScan]_vars

\* The scan contains no await that can stay pending: the task running it is
\* polled until it returns.
SpecScanFair == SpecScan /\ WF_vars(NextScan)

\* Ports of the scanned range a listener can bind.
BindableInRange == {p \in scan.start..scan.end : is_port_available(p)}

\* C15: when the range holds a bindable port the scan returns Some(p) with
\* p in the range, bindable, every port of the range below p not bindable,
\* having tried start..p in ascending order and holding no listener; what it
\* returns is what the allocator used by launch computes.
C15_FirstBindableAscending ==
    scan.pc = "done" =>
        /\ scan.result = find_available_port(scan.start, scan.end)
        /\ BindableInRange # {} =>
              /\ scan.result # None
              /\ LET p == unwrap(scan.result)
                 IN  /\ scan.start <= p /\ p <= scan.end
                     /\ is_port_available(p)
                     /\ \A q \in scan.start..(p - 1) : ~is_port_available(q)
                     /\ scan.examined =
                           [i \in 1..(p - scan.start + 1) |-> scan.start + i - 1]
                     /\ ~scan.holding

\* C15 witness: the scan skipped ports that are not bindable and returned
\* the last port of u16.
C15_Witness ==
    /\ scan.pc = "done"
    /\ scan.result = Some(U16Max)
    /\ Len(scan.examined) = ScanWidth

\* C16: the scan tries only ports of the range, each at most once, in every
\* range - empty, or ending at 65535; it always returns, and with no
\* bindable port in the range it returns None.
C16_NoneAfterOnePass ==
    /\ [](/\ \A i \in 1..Len(scan.examined) :
               /\ scan.examined[i] \in scan.start..scan.end
               /\ \A j \in 1..Len(scan.examined) :
                     scan.examined[i] = scan.examined[j] => i = j
          /\ (scan.pc = "done" /\ BindableInRange = {}) =>
               /\ scan.result = None
               /\ Len(scan.examined) = Cardinality(scan.start..scan.end))
    /\ <>(scan.pc = "done")

\* C16 witness: every port up to 65535 was tried, none bindable, and the
\* scan returned None.
C16_Witness ==
    /\ scan.pc = "done"
    /\ scan.result = None
    /\ scan.end = U16Max
    /\ Len(scan.examined) = ScanWidth

\* launch failed before it reached command.spawn().
FailedBeforeSpawn ==
    /\ launch.err # None
    /\ launch.err[1] \in {"PortExhausted", "ConfigurationError"}

\* C17: a launch that failed in port allocation or in parameter resolution
\* (database path, interpreter and app root, their existence checks) has
\* returned without spawning: no child process exists and none was ever
\* created; and no child exists before launch reaches its spawn.
C17_NoSpawnOnEarlyFailure ==
    /\ FailedBeforeSpawn =>
          /\ child = "none"
          /\ os.spawns = 0
          /\ launch.pc \in {"failed", "exited"}
    /\ launch.pc \in {"start", "resolve", "spawn"} =>
          /\ child = "none"
          /\ os.spawns = 0

\* C17 witness: the app root was missing, the launch task has ended the
\* application, and no child was created.
C17_Witness ==
    /\ launch.pc = "exited"
    /\ launch.err = <<"ConfigurationError", "app_root_missing">>
    /\ os.spawns = 0
    /\ child = "none"

\* Every PythonBackend value in existence, with or without its process.
Handles ==
    {unwrap(h) : h \in {x \in {slot, launch.backend}
                                \cup {tr[t].local : t \in Triggers} : x # None}}

\* C18: every handle a launch returned has the port the allocator chose for
\* that launch - the port whose decimal form was given to the child as
\* --port and whose health URL was probed - and base_url "http://localhost:"
\* followed by that port in decimal; the launch's port, hence the handles'
\* port and base_url, never changes afterwards, is_running and shutdown
\* included.
C18_HandlePortAndUrl ==
    /\ [](\A h \in Handles :
             /\ Some(h.port) = find_available_port(PortStart, PortEnd)
             /\ h.port = launch.port
             /\ h.base_url = <<"http://localhost:">> \o os.port
             /\ launch.health_url = h.base_url \o <<"/health">>
             /\ h.port = 8050 =>
                   h.base_url = <<"http://localhost:", "8", "0", "5", "0">>)
    /\ [][\A h \in Handles :
             \A g \in Handles' : g.port = h.port /\ g.base_url = h.base_url]_vars

\* C18 witness: the handle of port 8050 was asked is_running(), taken by a
\* trigger and shut down; it still carries its port and URL.
C18_Witness ==
    \E t \in Triggers :
        /\ tr[t].local # None
        /\ ~unwrap(tr[t].local).process
        /\ unwrap(tr[t].local).port = 8050
        /\ unwrap(tr[t].local).base_url
              = <<"http://localhost:", "8", "0", "5", "0">>
        /\ os.isr # None

\* C19 as stated: is_running() returns true exactly when the child it is
\* asked about is still running.
C19_TrueWhileRunning ==
    os.isr # None =>
        unwrap(os.isr).result = (unwrap(os.isr).before = "running")

\* C19 amended: is_running() returns true exactly when try_wait() succeeds
\* and reports the child still running - false for an exited child and
\* false when try_wait() fails, whatever the child does; the call leaves the
\* supervisor as it was (process held, port and base_url the same), and the
\* shutdown() of a trigger that later takes it runs the sequence.
C19_TrueWhileRunningAndQueryable ==
    /\ [](os.isr # None =>
            unwrap(os.isr).result
               = (unwrap(os.isr).ok /\ unwrap(os.isr).before = "running"))
    /\ [][os'.isr # os.isr =>
            /\ slot' = slot
            /\ unwrap(slot').process
            /\ tr' = tr]_vars
    /\ [](\A t \in Triggers :
            (tr[t].took /\ Returned(t)) => tr[t].seqs = 1)

\* C19 witness: is_running() met a child that had exited and returned
\* false; a trigger then took the supervisor and its shutdown() ran the
\* sequence.
C19_Witness ==
    /\ os.isr = Some([result |-> FALSE, before |-> "zombie", ok |-> TRUE])
    /\ \E t \in Triggers : tr[t].took /\ Done(t) /\ tr[t].seqs = 1

\* The launch task with its scheduling, beside one shutdown trigger: once
\* launch has returned an error the task runs its Err branch to
\* std::process::exit(1).
SpecLaunchFair == Init /\ [][NextOneTrigger]_vars /\ WF_vars(LaunchFailed)

\* launch has returned an error to the launch task.
LaunchErr == launch.err # None

\* C20 as stated: when launch has failed and the application has exited,
\* its exit status is not 0.
C20_FailureExitsNonZero ==
    (LaunchErr /\ exited # None) => unwrap(exited).code # 0

\* C20 amended: after any failure of launch the slot stays empty, no
\* readiness notification and no navigation is issued, and the task goes
\* nowhere but to its exit; when the task ends the application it has
\* logged the error and the status is 1; the application does exit, and
\* with a status other than 1 only through an exit that a shutdown trigger
\* had requested.
C20_FailureIsFatal ==
    /\ [](LaunchErr =>
            /\ slot = None
            /\ ~navigated
            /\ ~launch.notified
            /\ launch.pc \in {"failed", "exited"})
    /\ [](launch.pc = "exited" =>
            /\ launch.logged
            /\ exited # None
            /\ unwrap(exited).via = "launch"
            /\ unwrap(exited).code = 1)
    /\ []((LaunchErr /\ exited # None /\ unwrap(exited).code # 1) =>
            /\ unwrap(exited).via \in {"quit_app", "CloseRequested"}
            /\ \E t \in Triggers : Done(t) /\ tr[t].kind = unwrap(exited).via)
    /\ (LaunchErr ~> exited # None)

\* C20 witness: the readiness probe failed, the task logged the error and
\* ended the application with status 1; the slot was never populated.
C20_Witness ==
    /\ launch.pc = "exited"
    /\ launch.err = ReadinessTimeout(max_attempts, timeout_secs)
    /\ launch.logged
    /\ exited # None
    /\ unwrap(exited).code = 1
    /\ slot = None

\* C21: on every build target the forced kill comes after a graceful
\* termination request: whenever kill() has been called on the child, a
\* graceful signal had been sent to it before.
C21_GracefulBeforeForcedEverywhere ==
    os.kills >= 1 => os.sigterms >= 1

\* The CloseRequested handler t has logged the shutdown and returned.
CloseCompleted(t) == IsClose(t) /\ Done(t)

\* C22 as stated: when the close handler has completed, a handle it took
\* has had its child reaped.
C22_TakenHandleReaped ==
    \A t \in Triggers :
        (CloseCompleted(t) /\ tr[t].took) => child = "reaped"

\* C22 amended: the close handler holds the slot's lock from the take until
\* it returns, and it logs the shutdown and returns only after the
\* shutdown() of a handle it took has returned and the handle is dropped;
\* the child of that handle is then reaped if shutdown() returned Ok, and
\* an exit through the window close is requested by a completed handler.
C22_CloseAwaitsShutdown ==
    /\ \A t \in Triggers :
          /\ (IsClose(t) /\ tr[t].pc \in {"shutdown", "poll", "kill", "wait",
                                           "returned", "tail"})
                => lock = Holder(t)
          /\ (IsClose(t) /\ tr[t].pc \in {"tail", "done"} /\ tr[t].took) =>
                /\ tr[t].shut \in {"Ok", "Err"}
                /\ tr[t].seqs = 1
                /\ tr[t].local = None
                /\ tr[t].shut = "Ok" => child = "reaped"
          /\ (IsClose(t) /\ tr[t].pc \in {"tail", "done"} /\ ~tr[t].took) =>
                tr[t].seqs = 0
    /\ (\E r \in exitReqs : r.via = "CloseRequested")
          => \E t \in Triggers : CloseCompleted(t)

\* C22 witness: a close handler took the handle of a running child, its
\* shutdown() returned Ok, and the handler has completed with the child
\* reaped.
C22_Witness ==
    \E t \in Triggers :
        /\ CloseCompleted(t)
        /\ tr[t].took
        /\ tr[t].shut = "Ok"
        /\ tr[t].sigs >= 1
        /\ child = "reaped"

\* The lifecycle state of the backend, read off the program state: Failed
\* once launch has an error; Launching until launch has built its handle;
\* Ready while some handle holds the process; Stopping while a shutdown()
\* that took the process is in its termination sequence; Stopped after.
Lifecycle ==
    IF launch.err # None THEN "Failed"
    ELSE IF launch.pc \in {"start", "resolve", "spawn", "probe"} THEN "Launching"
    ELSE IF LiveHandles # {} THEN "Ready"
    ELSE IF \E t \in Triggers : tr[t].pc \in {"poll", "kill", "wait"}
    THEN "Stopping"
    ELSE "Stopped"

LifecycleSteps ==
    {<<"Launching", "Ready">>, <<"Ready", "Stopping">>,
     <<"Stopping", "Stopped">>, <<"Launching", "Failed">>}

\* C23: the lifecycle state changes only along Launching -> Ready ->
\* Stopping -> Stopped and Launching -> Failed, so Failed and Stopped are
\* never left and Ready is never re-entered; in Failed, and before the
\* readiness probe has succeeded, no handle exists, with or without process.
C23_LifecycleTransitions ==
    /\ [][Lifecycle' # Lifecycle
             => <<Lifecycle, Lifecycle'>> \in LifecycleSteps]_vars
    /\ [](Lifecycle \in {"Failed", "Launching"} => Handles = {})
    /\ [](Lifecycle = "Ready" =>
             /\ launch.pc \in {"ready", "stored", "done"}
             /\ launch.pc = "ready" => launch.probes = launch.attempt)

\* C23 witness: the backend went through launch, was stored, taken by a
\* trigger whose shutdown() ran the sequence, and is Stopped.
C23_Witness ==
    /\ Lifecycle = "Stopped"
    /\ launch.pc = "done"
    /\ \E t \in Triggers : Done(t) /\ tr[t].took /\ tr[t].seqs = 1

\* ------------------------------------ launch with its port scan in steps
\* launch calls find_available_port(8000, 9000): the scan starts
LaunchScanStart ==
    /\ Running
    /\ launch.pc = "start"
    /\ launch' = [launch EXCEPT !.pc = "scanning"]
    /\ scan' = [IdleScan EXCEPT !.pc = "next", !.start = PortStart,
                                !.end = PortEnd, !.cur = PortStart]
    /\ UNCHANGED <<env, info, child, os, slot, lock, navigated, tr, exitReqs,
                   exited>>

\* the scan has returned: .context(..)? on its result
LaunchScanDone ==
    /\ Running
    /\ launch.pc = "scanning"
    /\ scan.pc = "done"
    /\ launch' = AfterFindPort(launch, scan.result)
    /\ UNCHANGED <<env, info, scan, child, os, slot, lock, navigated, tr,
                   exitReqs, exited>>

\* The statements of launch() up to its return.
LaunchBody ==
    \/ LaunchScanStart
    \/ Running /\ NextScan
    \/ LaunchScanDone
    \/ LaunchResolve
    \/ LaunchSpawn
    \/ LaunchProbe

\* The statements of the shutdown() calls of trigger t.
ShutdownBody(t) ==
    \/ ShutdownEntry(t)
    \/ ShutdownPoll(t)
    \/ ShutdownKill(t)
    \/ ShutdownWait(t)

\* The program with its loops run statement by statement, beside one
\* shutdown trigger.
NextLoops ==
    \/ ChildExits
    \/ LaunchBody
    \/ LaunchFailed
    \/ LaunchStore
    \/ LaunchNavigate
    \/ TriggerNext(1)
    \/ ProcessExit

\* Every OS and HTTP call returns, and the task or thread inside launch()
\* or shutdown() keeps running.
SpecLoopsFair ==
    /\ Init
    /\ [][NextLoops]_vars
    /\ WF_vars(LaunchBody)
    /\ WF_vars(ShutdownBody(1))

InLaunch == launch.pc \in {"start", "scanning", "resolve", "spawn", "probe"}

InShutdown(t) == tr[t].pc \in {"shutdown", "poll", "kill", "wait"}

\* C24: the polling loop makes at most max_attempts probes, the grace loop
\* at most 50 status polls, the port scan tries at most end-start+1
\* candidates; and every launch() and every shutdown() returns, unless the
\* application has exited first.
C24_LoopsBoundedAndReturn ==
    /\ [](/\ launch.probes <= max_attempts
          /\ launch.attempt <= max_attempts
          /\ \A t \in Triggers : tr[t].polls <= GracePolls
          /\ scan.pc # "idle" =>
                Len(scan.examined) <= scan.end - scan.start + 1)
    /\ <>(~InLaunch \/ ~Running)
    /\ \A t \in Triggers : InShutdown(t) ~> (~InShutdown(t) \/ ~Running)

\* C24 witness: the scan tried every port of 8000-9000, found none bindable,
\* and launch has returned its error.
C24_Witness ==
    /\ Len(scan.examined) = PortEnd - PortStart + 1
    /\ launch.pc = "failed"
    /\ launch.err = <<"PortExhausted">>

\* Time the polling loop of launch has slept: sleep(retry_delay_ms) each time
SleptMs == launch.sleeps * DefaultRetryDelayMs

\* launch has returned the readiness failure to the launch task.
ReadinessFailed ==
    /\ launch.pc = "failed"
    /\ launch.err # None
    /\ launch.err[1] = "ReadinessTimeout"

\* C25: a spawned launch surfaces the readiness failure only after all 30
\* default attempts, 1000 ms apart, whatever the child and the shutdown
\* triggers did meanwhile: while launch is polling, nothing but its own next
\* probe changes it.
C25_NoMidFlightCancellation ==
    /\ [](ReadinessFailed =>
            /\ launch.probes = DefaultMaxAttempts
            /\ launch.sleeps = DefaultMaxAttempts - 1
            /\ SleptMs = 29000
            /\ os.spawns = 1)
    /\ [][(launch.pc = "probe" /\ launch' # launch) =>
            /\ launch'.probes = launch.probes + 1
            /\ launch'.pc = "failed" => launch'.probes = DefaultMaxAttempts]_vars

\* C25 witness: the child exited and a shutdown trigger ran to completion
\* while launch was polling; launch made its 30 probes all the same and has
\* now returned the readiness failure.
C25_Witness ==
    /\ ReadinessFailed
    /\ launch.probes = DefaultMaxAttempts
    /\ child = "zombie"
    /\ \E t \in Triggers : Done(t)

\* The pieces of text of message m.
Pieces(m) == {m[i] : i \in DOMAIN m}

\* The text of the causes beneath the outermost message of a chain.
CauseText(chain) == UNION {Pieces(chain[i]) : i \in 2..Len(chain)}

\* The phase of launch a reported message names by its opening words.
PhaseNamed(m) ==
    IF m[1] = "No available ports found in range 8000-9000" THEN "PortExhausted"
    ELSE IF m[1] = "Failed to spawn Python backend process" THEN "SpawnFailure"
    ELSE IF m[1] = "Python backend failed health check" THEN "ReadinessTimeout"
    ELSE IF m[1] \in {"Failed to get app data directory: ",
                      "Python venv not found in development mode",
                      "Python interpreter not found at: ",
                      "App root directory not found at: "}
    THEN "ConfigurationError"
    ELSE "-"

\* C26: the message reported for a failed launch names the phase that
\* failed and contains the text of the underlying cause.
C26_ReportNamesPhaseAndCause ==
    launch.pc = "exited" =>
        /\ PhaseNamed(launch.reported) = launch.err[1]
        /\ CauseText(ErrorChain(launch.err)) \subseteq Pieces(launch.reported)

\* A process other than the scan can bind port p: the port is bindable and
\* the scan's own trial listener is not on it.
ChildCanBind(p) == is_port_available(p) /\ ~(scan.holding /\ scan.port = p)

\* C27: a trial listener exists only between its bind and its release,
\* never while the next candidate is taken or tried and never after the
\* scan has returned; the set of bindable ports is left as it was; and the
\* port returned can be bound by the child.
C27_NoListenerLeft ==
    /\ [](scan.holding => scan.pc = "release")
    /\ [](scan.pc = "done" =>
            /\ ~scan.holding
            /\ scan.result # None => ChildCanBind(unwrap(scan.result)))
    /\ [][freePorts' = freePorts]_vars

\* C27 witness: the scan bound and released a listener on the second port
\* it tried and has returned that port.
C27_Witness ==
    /\ scan.pc = "done"
    /\ scan.result # None
    /\ Len(scan.examined) = 2
    /\ unwrap(scan.result) = scan.start + 1
    /\ ~scan.holding

\* C28: the main window is navigated to base_url only by the launch task
\* while it holds the lock with the handle already in the slot; so once the
\* window has been navigated the launch is complete, the handle is in the
\* slot or was taken by a trigger, and a trigger that locks the slot from
\* then on takes the handle unless another trigger has taken it.
C28_StoredBeforeNavigation ==
    /\ [][(navigated' /\ ~navigated) =>
            /\ lock = LaunchTask
            /\ slot # None
            /\ slot' = slot
            /\ unwrap(slot).process]_vars
    /\ [](navigated =>
            /\ launch.pc = "done"
            /\ slot # None \/ \E t \in Triggers : tr[t].took)
    /\ [][\A t \in Triggers :
            (navigated /\ tr[t].pc = "locking" /\ tr'[t].pc # "locking") =>
                \/ tr'[t].took
                \/ \E u \in Triggers : tr[u].took]_vars

\* C28 witness: the window was navigated, and a trigger that came after
\* took the handle from the slot and has completed.
C28_Witness ==
    /\ navigated
    /\ slot = None
    /\ \E t \in Triggers : tr[t].took /\ Done(t)

\* C29: shutdown() sends the graceful termination signal only to a child
\* that has not been reaped: no SIGTERM goes to the process id of a child
\* whose exit status was already collected.
C29_NoSignalToReapedChild ==
    [][os'.sigterms > os.sigterms => child # "reaped"]_vars

\* C30: an invocation of quit_app that has completed - leaving aside the
\* one that returned Err without exiting, shutdown having failed with force
\* false or absent - has requested exit exactly once: with code 1 when its
\* shutdown() failed, with code 0 otherwise.
C30_OneExitRequestPerQuit ==
    \A t \in Triggers :
        (IsQuit(t) /\ Done(t)
           /\ ~(tr[t].shut = "Err" /\ ~unwrap_or_false(tr[t].force))) =>
            tr[t].exits = << IF tr[t].shut = "Err" THEN 1 ELSE 0 >>

\* C31 as stated: a status poll that fails during the grace window ends the
\* polling at once, and shutdown() then returns only after the forced kill
\* and with the child reaped; a SIGTERM that could not be sent does not end
\* the sequence.
C31_PollErrorKillsAndReaps ==
    \A t \in Triggers :
        /\ tr[t].pollErr => tr[t].pc # "poll"
        /\ (Returned(t) /\ tr[t].pollErr) =>
              /\ tr[t].forcedLog
              /\ os.kills = 1
              /\ child = "reaped"
        /\ (Returned(t) /\ tr[t].sigErr) =>
              (tr[t].sawExit \/ tr[t].forcedLog)

\* C31 (amended): a status poll that fails during the grace window ends the
\* polling at once and the forced kill is issued next; shutdown() has waited
\* for and reaped the child exactly when it then returns Ok, and returns an
\* error, the child possibly still running, when kill() or wait() failed.
\* A SIGTERM that could not be sent does not end the sequence: the polls
\* follow, and shutdown() returns only after a poll saw the child exited or
\* after the forced kill.
C31_PollErrorForcesKill ==
    \A t \in Triggers :
        /\ tr[t].pollErr => (unix /\ tr[t].pc # "poll")
        /\ (tr[t].pollErr /\ tr[t].pc = "kill") => ~tr[t].forcedLog
        /\ (Returned(t) /\ tr[t].pollErr) =>
              /\ tr[t].forcedLog
              /\ os.kills = 1
              /\ ~tr[t].sawExit
              /\ tr[t].sdres = "Ok" => (child = "reaped" /\ os.waits = 1)
              /\ tr[t].sdres = "Err" => os.err
        /\ tr[t].sigErr =>
              /\ unix /\ tr[t].seqs = 1
              /\ tr[t].pc = "shutdown" => tr[t].mode = "drop"
        /\ (Returned(t) /\ tr[t].sigErr) =>
              /\ tr[t].sawExit \/ tr[t].forcedLog
              /\ tr[t].sdres = "Ok" => child = "reaped"

\* C31 witness: the SIGTERM could not be sent, a poll of the grace window
\* failed, and shutdown() has returned Ok after the forced kill and the wait.
C31_Witness ==
    \E t \in Triggers :
        /\ Returned(t) /\ tr[t].sigErr /\ tr[t].pollErr
        /\ tr[t].forcedLog /\ tr[t].sdres = "Ok"
        /\ child = "reaped"

\* The launch task has put the backend into the slot.
Stored == launch.pc \in {"stored", "done"}

\* C32: a call of app_ready reports backend_port = Some(p) exactly when the
\* slot holds a backend with port p at that moment, which is the port the
\* child was spawned with; it reports None before the launch task has stored
\* the backend and after a shutdown trigger has taken it, also while that
\* trigger still holds the taken backend; and the call leaves the slot and
\* everything but the returned AppInfo as they were.
C32_AppReadyReportsSlot ==
    [][info' # info =>
         LET reported == unwrap(info').backend_port IN
         /\ \A p \in PortStart..PortEnd :
               reported = Some(p) <=> (slot # None /\ unwrap(slot).port = p)
         /\ reported = None <=> slot = None
         /\ ~Stored => reported = None
         /\ (\E t \in Triggers : tr[t].took) => reported = None
         /\ reported # None =>
               /\ Stored
               /\ unwrap(reported) = launch.port
               /\ os.port = to_string(unwrap(reported))
               /\ \A t \in Triggers : tr[t].local = None
         /\ slot' = slot
         /\ UNCHANGED <<env, scan, child, os, launch, lock,
                         navigated, tr, exitReqs, exited>>]_vars

\* C32 witness: app_ready has returned the port of the backend in the slot.
C32_Witness ==
    /\ info # None
    /\ slot # None
    /\ unwrap(info).backend_port = Some(unwrap(slot).port)

====
